---------------------------- MODULE Spec2Model ----------------------------
(***************************************************************************)
(* The job tracker of src/backend/routers/image.ts (createImageRouter):    *)
(* a credit counter, three in-memory job collections and one timer per     *)
(* queued job, driven by five HTTP handlers and by the timer callbacks.    *)
(*                                                                         *)
(* Node runs the handlers and the callbacks on one event loop, so each     *)
(* handler body is one atomic step.  The timer callback is two steps: it   *)
(* starts the four generateGeminiImage calls and suspends at the await of  *)
(* Promise.all (TimerFires); when Promise.all settles, the continuation    *)
(* (or the catch block) runs in the same turn (GenerationSettles).         *)
(***************************************************************************)
EXTENDS Integers, Sequences, FiniteSets, TLC

VARIABLES
    credits,        \* let credits                                (line 29)
    jobQueue,       \* const jobQueue: {jobId, prompt, timeoutId}[] (line 21)
    completedJobs,  \* const completedJobs: Record<string, ImageResponse[]>
    cancelledJobs,  \* const cancelledJobs: {jobId}[]             (line 27)
    timers,         \* the setTimeout callback of every job issued so far
    purchases,      \* number of purchase-credits requests served so far
    response        \* the request served last and the response sent to it

vars == <<credits, jobQueue, completedJobs, cancelledJobs, timers,
          purchases, response>>

\* The three collections, the balance and the timers: what a handler can change.
tracker == <<credits, jobQueue, completedJobs, cancelledJobs, timers>>

---------------------------------------------------------------------------
\* Bounds of the model.

\* Job identifiers issued in a behaviour of Spec.
MaxJobs == 2
\* purchase-credits requests served in a behaviour.
MaxPurchases == 1
\* Job identifiers issued in a behaviour of SpecSpend.
SpendJobs == 11
\* Jobs in jobQueue at a time in a behaviour of SpecSpend.
SpendPending == 2
\* purchase-credits requests served in a behaviour of SpecPurchase.
PurchaseCalls == 60

---------------------------------------------------------------------------
\* Program constants.

INITIAL_CREDITS == 10
CREDITS_IN_BUNDLE == 10
\* Promise.all over four generateGeminiImage calls (lines 135-140).
GENERATION_CALLS == 4
FULLSIZE == 1024
THUMBNAIL == 512

\* Query parameters. A missing or empty parameter is "" for a prompt and 0
\* for a job identifier: both are falsy in the handlers' `!prompt`, `!jobId`.
Prompts == {"cat"}
NoPrompt == ""
NoJobId == 0
JobIds == 1..SpendJobs + 1

\* The outcome of one generateGeminiImage call: it returns an image or throws.
CallOutcomes == {"image", "error"}
Outcomes == [1..GENERATION_CALLS -> CallOutcomes]

---------------------------------------------------------------------------
\* Helpers over the collections.

\* A findIndex whose predicate reads a field no job has (job.id): never found.
findIndexNever(queue, jobId) == 0

\* A findIndex whose predicate holds for every job: the first index, if any.
findIndexFirst(queue, jobId) == IF Len(queue) > 0 THEN 1 ELSE 0

\* jobQueue.findIndex((job) => job.jobId === jobId); 0 stands for -1.
findIndex(queue, jobId) ==
    IF \E i \in 1..Len(queue) : queue[i].jobId = jobId
    THEN CHOOSE i \in 1..Len(queue) :
            /\ queue[i].jobId = jobId
            /\ \A k \in 1..(i - 1) : queue[k].jobId # jobId
    ELSE 0

\* A splice that removes nothing.
spliceNothing(queue, index) == queue

\* array.splice(index, 1)
splice(queue, index) ==
    [i \in 1..(Len(queue) - 1) |-> IF i < index THEN queue[i] ELSE queue[i + 1]]

\* A some whose predicate holds for every entry (job => job.jobId).
someEntry(queue, jobId) == Len(queue) > 0

\* array.some((job) => job.jobId === jobId)
some(queue, jobId) == \E i \in 1..Len(queue) : queue[i].jobId = jobId

\* array.push(item)
push(queue, item) == Append(queue, item)

\* A cancel handler that forgets to record the job.
recordCancelledDropped(list, jobId) == list

\* cancelledJobs.push({ jobId }) of the cancel handler
recordCancelled(list, jobId) == push(list, [jobId |-> jobId])

\* A catch block that drops the job whose generation threw.
catchBlockDropsJob(queue, jobId) ==
    IF findIndex(queue, jobId) # 0 THEN splice(queue, findIndex(queue, jobId)) ELSE queue

\* What the catch block of the timer callback leaves in jobQueue for the
\* job whose generation threw: it logs the error and touches nothing.
catchBlock(queue, jobId) == queue

\* A completion that charges nothing.
deductNothing(balance) == balance

\* credits -= 1
deduct(balance) == balance - 1

\* A purchase that sets the balance to the bundle (credits = CREDITS_IN_BUNDLE).
addBundleAssigns(balance) == CREDITS_IN_BUNDLE

\* credits += CREDITS_IN_BUNDLE
addBundle(balance) == balance + CREDITS_IN_BUNDLE

\* A pre-check that counts the jobs already pending against the balance.
noCreditsReserving(balance) == balance <= Len(jobQueue)

\* A pre-check that lets a balance of exactly 0 through.
noCreditsBelowZero(balance) == balance < 0

\* credits <= 0, the pre-check of the queue handler
noCredits(balance) == balance <= 0

\* A prompt check that accepts the empty prompt.
missingPromptIgnored(prompt) == FALSE

\* !prompt
missingPrompt(prompt) == prompt = NoPrompt

\* A join that resolves as soon as one call returned an image (Promise.any).
anyResolved(outcome) == \E c \in DOMAIN outcome : outcome[c] = "image"

\* Promise.all resolves when every call returned an image and rejects
\* as soon as one call throws.
allResolved(outcome) == \A c \in DOMAIN outcome : outcome[c] = "image"

\* completedJobs[jobId] is truthy
isCompleted(jobId) == jobId \in DOMAIN completedJobs

\* Math.random().toString(36).substring(2, 15): an opaque identifier, taken
\* to differ from every identifier issued before. The program only compares
\* identifiers for equality, so the model issues 1, 2, 3, ...
generateJobId == Cardinality(DOMAIN timers) + 1

\* The ImageResponse generateGeminiImage returns for a prompt. Both urls are
\* the same data URL (background removed, or the original image when the
\* removal fails); the model keeps its fixed prefix only.
generateGeminiImage(prompt) ==
    [fullsize  |-> [width |-> FULLSIZE, height |-> FULLSIZE,
                    url |-> "data:image/png;base64"],
     thumbnail |-> [width |-> THUMBNAIL, height |-> THUMBNAIL,
                    url |-> "data:image/png;base64"],
     label     |-> prompt]

\* The prompt the timer callback of jobId closed over.
promptOf(jobId) == timers[jobId].prompt

---------------------------------------------------------------------------
\* Responses.

Reply(route, arg, status, body) ==
    [route |-> route, arg |-> arg, status |-> status, body |-> body]

Text(message) == [text |-> message]

\* What the job-status handler sends for jobId in the current state.
jobStatusReply(jobId) ==
    IF jobId = NoJobId
    THEN [status |-> 400, body |-> Text("Missing jobId parameter.")]
    ELSE IF isCompleted(jobId)
    THEN [status |-> 200,
          body |-> [status |-> "completed",
                    images |-> completedJobs[jobId],
                    credits |-> credits]]
    ELSE IF some(jobQueue, jobId)
    THEN [status |-> 200, body |-> [status |-> "processing"]]
    ELSE IF some(cancelledJobs, jobId)
    THEN [status |-> 200, body |-> [status |-> "cancelled"]]
    ELSE [status |-> 404, body |-> Text("Job not found.")]

---------------------------------------------------------------------------
Init ==
    /\ credits = INITIAL_CREDITS
    /\ jobQueue = <<>>
    /\ completedJobs = <<>>
    /\ cancelledJobs = <<>>
    /\ timers = <<>>
    /\ purchases = 0
    /\ response = Reply("none", NoJobId, 0, Text(""))

\* router.get(Routes.CREDITS)
CREDITS ==
    /\ response' = Reply("credits", NoJobId, 200, [credits |-> credits])
    /\ UNCHANGED <<tracker, purchases>>

\* router.post(Routes.PURCHASE_CREDITS), serving at most maxPurchases requests.
PurchaseCredits(maxPurchases) ==
    /\ purchases < maxPurchases
    /\ credits' = addBundle(credits)
    /\ purchases' = purchases + 1
    /\ response' = Reply("purchase-credits", NoJobId, 200, [credits |-> credits'])
    /\ UNCHANGED <<jobQueue, completedJobs, cancelledJobs, timers>>

PURCHASE_CREDITS == PurchaseCredits(MaxPurchases)

\* router.get(Routes.QUEUE_IMAGE_GENERATION), serving at most maxIssued
\* successful requests and at most maxPending jobs in jobQueue at a time.
QueueImageGeneration(prompt, maxIssued, maxPending) ==
    IF noCredits(credits)
    THEN /\ response' = Reply("queue-image-generation", prompt, 403,
                              Text("Not enough credits required to generate images."))
         /\ UNCHANGED <<tracker, purchases>>
    ELSE IF missingPrompt(prompt)
    THEN /\ response' = Reply("queue-image-generation", prompt, 400,
                              Text("Missing prompt parameter."))
         /\ UNCHANGED <<tracker, purchases>>
    ELSE LET jobId == generateJobId IN
         /\ Cardinality(DOMAIN timers) < maxIssued
         /\ Len(jobQueue) < maxPending
         /\ timers' = timers @@ (jobId :> [state |-> "scheduled", prompt |-> prompt])
         /\ jobQueue' = push(jobQueue,
                             [jobId |-> jobId, prompt |-> prompt, timeoutId |-> jobId])
         /\ response' = Reply("queue-image-generation", prompt, 200, [jobId |-> jobId])
         /\ UNCHANGED <<credits, completedJobs, cancelledJobs, purchases>>

QUEUE_IMAGE_GENERATION(prompt) == QueueImageGeneration(prompt, MaxJobs, MaxJobs)

\* The setTimeout callback of jobId starts (after 5000 ms): it calls
\* generateGeminiImage four times and awaits Promise.all.
TimerFires(jobId) ==
    /\ jobId \in DOMAIN timers
    /\ timers[jobId].state = "scheduled"
    /\ timers' = [timers EXCEPT ![jobId].state = "generating"]
    /\ UNCHANGED <<credits, jobQueue, completedJobs, cancelledJobs, purchases, response>>

\* Promise.all settles for jobId: with all four images the callback goes on
\* at line 142, with any call throwing it goes to the catch block.
GenerationSettles(jobId, outcome) ==
    /\ jobId \in DOMAIN timers
    /\ timers[jobId].state = "generating"
    /\ IF allResolved(outcome)
       THEN LET images == [c \in 1..GENERATION_CALLS |->
                              generateGeminiImage(promptOf(jobId))]
                index == findIndex(jobQueue, jobId)
            IN  /\ timers' = [timers EXCEPT ![jobId].state = "finished"]
                /\ IF index # 0
                   THEN /\ jobQueue' = splice(jobQueue, index)
                        /\ completedJobs' = completedJobs @@ (jobId :> images)
                        /\ credits' = deduct(credits)
                   ELSE UNCHANGED <<jobQueue, completedJobs, credits>>
       ELSE /\ timers' = [timers EXCEPT ![jobId].state = "failed"]
            /\ jobQueue' = catchBlock(jobQueue, jobId)
            /\ UNCHANGED <<completedJobs, credits>>
    /\ UNCHANGED <<cancelledJobs, purchases, response>>

\* A job-status handler that evicts a completed job once it has delivered it.
JobStatusEvicts(jobId) ==
    /\ response' = Reply("job-status", jobId,
                         jobStatusReply(jobId).status, jobStatusReply(jobId).body)
    /\ completedJobs' = [id \in DOMAIN completedJobs \ {jobId} |-> completedJobs[id]]
    /\ UNCHANGED <<credits, jobQueue, cancelledJobs, timers, purchases>>

\* router.get(Routes.JOB_STATUS)
JOB_STATUS(jobId) ==
    /\ response' = Reply("job-status", jobId,
                         jobStatusReply(jobId).status, jobStatusReply(jobId).body)
    /\ UNCHANGED <<tracker, purchases>>

\* A clearTimeout that leaves the timer armed.
clearTimeoutNoop(timeoutId) == timers

\* clearTimeout(timeoutId): a timer that has not fired never fires; clearing
\* a timer whose callback has started does nothing.
clearTimeout(timeoutId) ==
    IF timers[timeoutId].state = "scheduled"
    THEN [timers EXCEPT ![timeoutId].state = "cleared"]
    ELSE timers

\* router.post(Routes.CANCEL_JOB)
CANCEL_JOB(jobId) ==
    IF jobId = NoJobId
    THEN /\ response' = Reply("cancel", jobId, 400, Text("Missing jobId parameter."))
         /\ UNCHANGED <<tracker, purchases>>
    ELSE LET index == findIndex(jobQueue, jobId) IN
         IF index # 0
         THEN /\ cancelledJobs' = recordCancelled(cancelledJobs, jobId)
              /\ jobQueue' = splice(jobQueue, index)
              /\ timers' = clearTimeout(jobQueue[index].timeoutId)
              /\ response' = Reply("cancel", jobId, 200,
                                   Text("Job successfully cancelled."))
              /\ UNCHANGED <<credits, completedJobs, purchases>>
         ELSE /\ response' = Reply("cancel", jobId, 404, Text("Job not found."))
              /\ UNCHANGED <<tracker, purchases>>

\* Identifiers a client sends: every one issued so far and one fabricated.
Requested == 0..(MaxJobs + 1)

Next ==
    \/ CREDITS
    \/ PURCHASE_CREDITS
    \/ \E prompt \in Prompts \cup {NoPrompt} : QUEUE_IMAGE_GENERATION(prompt)
    \/ \E jobId \in JobIds : TimerFires(jobId)
    \/ \E jobId \in JobIds, outcome \in Outcomes : GenerationSettles(jobId, outcome)
    \/ \E jobId \in Requested : JOB_STATUS(jobId)
    \/ \E jobId \in Requested : CANCEL_JOB(jobId)

Spec == Init /\ [][Next]_vars

\* Fairness: an armed timer fires once its 5000 ms have passed unless it is
\* cleared first, and the four generation calls of a fired callback each
\* return or throw, so Promise.all settles.
Fairness ==
    \A jobId \in 1..MaxJobs :
        /\ WF_vars(TimerFires(jobId))
        /\ WF_vars(\E outcome \in Outcomes : GenerationSettles(jobId, outcome))

\* The steps that move a job: queueing, cancelling and the timer callbacks.
\* (With a positive balance, credits, purchase-credits and job-status
\* requests change nothing a job's progress depends on.)
NextLive ==
    \/ \E prompt \in Prompts \cup {NoPrompt} : QUEUE_IMAGE_GENERATION(prompt)
    \/ \E jobId \in JobIds : TimerFires(jobId)
    \/ \E jobId \in JobIds, outcome \in Outcomes : GenerationSettles(jobId, outcome)
    \/ \E jobId \in Requested : CANCEL_JOB(jobId)

SpecFair == Init /\ [][NextLive]_vars /\ Fairness

\* The behaviours in which clients only queue jobs and never purchase, poll
\* or cancel: enough jobs to spend the initial credits.
SpendPrompts == Prompts \cup {NoPrompt}

QueueSpend(prompt) == QueueImageGeneration(prompt, SpendJobs, SpendPending)

NextSpend ==
    \/ \E prompt \in SpendPrompts : QueueSpend(prompt)
    \/ \E jobId \in JobIds : TimerFires(jobId)
    \/ \E jobId \in JobIds, outcome \in Outcomes : GenerationSettles(jobId, outcome)

SpecSpend == Init /\ [][NextSpend]_vars

\* The behaviours in which clients only purchase credits and read the balance.
PurchaseOnly == PurchaseCredits(PurchaseCalls)

NextPurchase ==
    \/ PurchaseOnly
    \/ CREDITS

SpecPurchase == Init /\ [][NextPurchase]_vars

---------------------------------------------------------------------------
\* Membership of a job identifier in the three collections.

InPending(jobId) == some(jobQueue, jobId)
InCompleted(jobId) == isCompleted(jobId)
InCancelled(jobId) == some(cancelledJobs, jobId)

\* The identifiers queue-image-generation has returned so far.
Issued == DOMAIN timers

TimerState(jobId) == IF jobId \in Issued THEN timers[jobId].state ELSE "none"

\* The last response answers a job-status poll for jobId with this status.
Polled(jobId, status) ==
    /\ response.route = "job-status"
    /\ response.arg = jobId
    /\ response.status = 200
    /\ response.body.status = status

---------------------------------------------------------------------------
\* C1: in every reachable state each job identifier is in at most one of
\* jobQueue, completedJobs and cancelledJobs.
C1_AtMostOneCollection ==
    \A jobId \in JobIds :
        /\ ~(InPending(jobId) /\ InCompleted(jobId))
        /\ ~(InPending(jobId) /\ InCancelled(jobId))
        /\ ~(InCompleted(jobId) /\ InCancelled(jobId))

\* A job cancelled while generating, whose generation has since finished with
\* four images, next to a completed job.
C1_Witness ==
    \E jobId, other \in Issued :
        /\ InCancelled(jobId)
        /\ TimerState(jobId) = "finished"
        /\ InCompleted(other)

\* C2: in every reachable state every identifier issued so far is in
\* jobQueue, completedJobs or cancelledJobs, jobs whose generation failed
\* included.
C2_IssuedIsTracked ==
    \A jobId \in Issued :
        InPending(jobId) \/ InCompleted(jobId) \/ InCancelled(jobId)

\* A job whose generation failed, still tracked.
C2_Witness ==
    \E jobId \in Issued :
        /\ TimerState(jobId) = "failed"
        /\ InPending(jobId) \/ InCancelled(jobId)

\* C3: in every reachable state the credit balance is at least 0.
C3_CreditsNeverNegative == credits >= 0

\* C4: a queue-image-generation request served while the balance is <= 0
\* is answered 403 and leaves the collections, the balance and the timers
\* unchanged.
C4_NoCreditsNoJob ==
    [][\A prompt \in SpendPrompts :
          (credits <= 0 /\ QueueSpend(prompt)) =>
              /\ response'.status = 403
              /\ UNCHANGED tracker]_vars

\* A request with a prompt refused at a balance of 0 or less.
C4_Witness ==
    /\ credits <= 0
    /\ response.route = "queue-image-generation"
    /\ response.arg \in Prompts
    /\ response.status = 403

\* C5, as claimed: a queue-image-generation request with an empty or missing
\* prompt is answered 400 whatever the balance, and creates no job.
C5_EmptyPromptAlways400 ==
    [][QueueSpend(NoPrompt) =>
          /\ response'.status = 400
          /\ UNCHANGED tracker]_vars

\* C5, amended: a queue-image-generation request with an empty or missing
\* prompt never creates a job; it is answered 400 when the balance is
\* positive and 403 when the balance is 0 or less.
C5_EmptyPromptNoJob ==
    [][QueueSpend(NoPrompt) =>
          /\ response'.status = IF credits > 0 THEN 400 ELSE 403
          /\ UNCHANGED tracker]_vars

\* A request without prompt refused for the balance, not for the prompt.
C5_Witness ==
    /\ credits <= 0
    /\ response.route = "queue-image-generation"
    /\ response.arg = NoPrompt
    /\ response.status = 403

---------------------------------------------------------------------------
\* The status a job-status poll for jobId reports in the current state
\* ("none" when the poll is answered 400 or 404).
StatusOf(jobId) ==
    IF jobStatusReply(jobId).status = 200
    THEN jobStatusReply(jobId).body.status
    ELSE "none"

\* C6: a queued job polls `processing` from the step that queues it until
\* its delayed action has finished; when the action finishes with four images
\* and the job still pending, the job polls `completed` with exactly four
\* images labelled with its prompt, and the balance drops by exactly 1 in
\* that very step, the one that moves the job from pending to completed.
C6_ProcessingThenCompleted ==
    /\ [](\A jobId \in Issued :
            (TimerState(jobId) \in {"scheduled", "generating"} /\ ~InCancelled(jobId))
                => StatusOf(jobId) = "processing")
    /\ [][\A jobId \in JobIds :
            (jobId \notin Issued /\ jobId \in Issued')
                => /\ StatusOf(jobId)' = "processing"
                   /\ credits' = credits]_vars
    /\ [][\A jobId \in Issued :
            (InPending(jobId) /\ TimerState(jobId) = "generating"
                              /\ TimerState(jobId)' = "finished")
                => /\ StatusOf(jobId)' = "completed"
                   /\ Len(completedJobs'[jobId]) = 4
                   /\ \A c \in 1..4 : completedJobs'[jobId][c].label = promptOf(jobId)
                   /\ ~InPending(jobId)'
                   /\ credits' = credits - 1]_vars
    /\ [][\A jobId \in JobIds :
            (~InCompleted(jobId) /\ InCompleted(jobId)')
                => /\ InPending(jobId)
                   /\ credits' = credits - 1]_vars

\* A completed job polled: four images and the balance one below the credits
\* bought so far.
C6_Witness ==
    \E jobId \in Issued :
        /\ Polled(jobId, "completed")
        /\ Len(response.body.images) = 4
        /\ Cardinality(DOMAIN completedJobs) = 1
        /\ response.body.credits = INITIAL_CREDITS + CREDITS_IN_BUNDLE * purchases - 1

\* C7: a cancel of a job in pending removes it from pending and adds it to
\* cancelled; from then on the job stays cancelled, every poll for it reports
\* `cancelled`, and another cancel of it is answered 404.
C7_CancelPending ==
    /\ [][\A jobId \in Requested \ {NoJobId} :
            (InPending(jobId) /\ CANCEL_JOB(jobId))
                => /\ response'.status = 200
                   /\ ~InPending(jobId)'
                   /\ InCancelled(jobId)']_vars
    /\ [](\A jobId \in JobIds :
            InCancelled(jobId) => StatusOf(jobId) = "cancelled")
    /\ [][\A jobId \in JobIds :
            InCancelled(jobId) => InCancelled(jobId)']_vars
    /\ [][\A jobId \in Requested \ {NoJobId} :
            (InCancelled(jobId) /\ CANCEL_JOB(jobId))
                => /\ response'.status = 404
                   /\ UNCHANGED tracker]_vars

\* A second cancel of a cancelled job, answered 404.
C7_Witness ==
    /\ response.route = "cancel"
    /\ response.status = 404
    /\ InCancelled(response.arg)

\* C8: a cancel of a pending job whose timer has not fired clears the timer
\* and leaves the balance alone; a cleared timer never fires, its job never
\* completes and keeps polling `cancelled`; and the balance only ever drops
\* by 1, in a step in which a generating job enters completed.
C8_CancelBeforeTimer ==
    /\ [][\A jobId \in Requested \ {NoJobId} :
            (InPending(jobId) /\ TimerState(jobId) = "scheduled" /\ CANCEL_JOB(jobId))
                => /\ TimerState(jobId)' = "cleared"
                   /\ StatusOf(jobId)' = "cancelled"
                   /\ credits' = credits]_vars
    /\ [][\A jobId \in JobIds :
            TimerState(jobId) = "cleared"
                => /\ TimerState(jobId)' = "cleared"
                   /\ StatusOf(jobId)' = "cancelled"
                   /\ ~InCompleted(jobId)']_vars
    /\ [][credits' < credits
            => \E jobId \in Issued :
                  /\ TimerState(jobId) = "generating"
                  /\ ~InCompleted(jobId) /\ InCompleted(jobId)'
                  /\ credits' = credits - 1]_vars

\* A job cancelled before its timer fired, polled afterwards.
C8_Witness ==
    \E jobId \in Issued :
        /\ TimerState(jobId) = "cleared"
        /\ Polled(jobId, "cancelled")

\* C9: a cancel of a pending job whose generation is in flight is answered
\* 200 and moves the job from pending to cancelled without stopping the
\* generation; when the generation of a cancelled job settles, collections
\* and balance stay as they are; a cancelled job is never in completed.
C9_CancelWhileGenerating ==
    /\ [][\A jobId \in Requested \ {NoJobId} :
            (InPending(jobId) /\ TimerState(jobId) = "generating" /\ CANCEL_JOB(jobId))
                => /\ response'.status = 200
                   /\ ~InPending(jobId)'
                   /\ InCancelled(jobId)'
                   /\ TimerState(jobId)' = "generating"]_vars
    /\ [][\A jobId \in Issued :
            (InCancelled(jobId) /\ TimerState(jobId) = "generating"
                                /\ TimerState(jobId)' # "generating")
                => /\ UNCHANGED <<credits, jobQueue, completedJobs, cancelledJobs>>
                   /\ StatusOf(jobId)' = "cancelled"]_vars
    /\ [](\A jobId \in JobIds : InCancelled(jobId) => ~InCompleted(jobId))

\* A job cancelled while generating, its four images discarded: polled
\* `cancelled`, nothing completed, the initial balance untouched.
C9_Witness ==
    \E jobId \in Issued :
        /\ TimerState(jobId) = "finished"
        /\ Polled(jobId, "cancelled")
        /\ DOMAIN completedJobs = {}
        /\ purchases = 0
        /\ credits = INITIAL_CREDITS

\* C10: when any of the four generation calls of a job fails, the step
\* changes no collection and not the balance; from then on the job never
\* completes, and while it is pending it polls `processing` and leaves
\* pending only by being cancelled.
C10_FailedStaysPending ==
    /\ [][\A jobId \in Issued :
            (TimerState(jobId) = "generating" /\ TimerState(jobId)' # "generating")
                => \A outcome \in Outcomes :
                      ((\E c \in 1..GENERATION_CALLS : outcome[c] = "error")
                          /\ GenerationSettles(jobId, outcome))
                          => /\ UNCHANGED <<credits, jobQueue, completedJobs,
                                            cancelledJobs>>
                             /\ TimerState(jobId)' = "failed"]_vars
    /\ [][\A jobId \in JobIds :
            TimerState(jobId) = "failed"
                => /\ TimerState(jobId)' = "failed"
                   /\ ~InCompleted(jobId)'
                   /\ InPending(jobId) => (InPending(jobId)' \/ InCancelled(jobId)')
                   /\ (InPending(jobId) /\ ~InPending(jobId)') => credits' = credits]_vars
    /\ [](\A jobId \in JobIds :
            (TimerState(jobId) = "failed" /\ ~InCancelled(jobId))
                => /\ InPending(jobId)
                   /\ StatusOf(jobId) = "processing")

\* A job whose generation failed, polled afterwards: still `processing`.
C10_Witness ==
    \E jobId \in Issued :
        /\ TimerState(jobId) = "failed"
        /\ Polled(jobId, "processing")

---------------------------------------------------------------------------
\* The status the last response reports, when it answers a job-status poll
\* ("none" when that poll was answered 400 or 404).
Reported(reply) == IF reply.status = 200 THEN reply.body.status ELSE "none"

\* C11, as claimed: a job-status poll for a job whose generation failed and
\* that was never finalized is answered 404.
C11_FailedPolls404 ==
    [][\A jobId \in Requested \ {NoJobId} :
          (TimerState(jobId) = "failed" /\ ~InCancelled(jobId) /\ JOB_STATUS(jobId))
              => response'.status = 404]_vars

\* C11, amended: a job-status poll for a job whose generation failed and
\* that was never finalized is answered 200 with status `processing` (the
\* job is still in pending), never 404, while a poll for an identifier never
\* issued is answered 404.
C11_FailedPollsProcessing ==
    [][\A jobId \in Requested \ {NoJobId} :
          /\ (TimerState(jobId) = "failed" /\ ~InCancelled(jobId) /\ JOB_STATUS(jobId))
                => /\ response'.status = 200
                   /\ Reported(response') = "processing"
          /\ (jobId \notin Issued /\ JOB_STATUS(jobId))
                => response'.status = 404]_vars

\* A failed, uncancelled job polled `processing` while some identifier has
\* not been issued.
C11_Witness ==
    \E jobId \in Issued :
        /\ TimerState(jobId) = "failed"
        /\ ~InCancelled(jobId)
        /\ Polled(jobId, "processing")
        /\ Requested \ (Issued \cup {NoJobId}) # {}

C13_CancelNotPending ==
    [][\A jobId \in Requested \ {NoJobId} :
          (~InPending(jobId) /\ CANCEL_JOB(jobId))
              => /\ response'.status = 404
                 /\ UNCHANGED tracker]_vars

\* A cancel of a completed job, answered 404, with another job pending.
C13_Witness ==
    /\ response.route = "cancel"
    /\ response.status = 404
    /\ InCompleted(response.arg)
    /\ Len(jobQueue) > 0

---------------------------------------------------------------------------
\* C14: when only purchase-credits requests are served from the initial
\* state, the balance after N of them is 10 + 10 * N, and each request
\* returns that new balance.
C14_PurchaseArithmetic ==
    /\ credits = 10 + 10 * purchases
    /\ response.route = "purchase-credits"
          => /\ response.status = 200
             /\ response.body = [credits |-> 10 + 10 * purchases]
    /\ response.route = "credits"
          => response.body = [credits |-> 10 + 10 * purchases]

\* The third purchase in a row, answered with a balance of 40.
C14_Witness ==
    /\ purchases = 3
    /\ response.route = "purchase-credits"
    /\ response.body.credits = 40
    /\ credits = 40

---------------------------------------------------------------------------
\* C15: the only moves of a job identifier between collections are pending
\* to completed and pending to cancelled: an identifier enters pending only
\* when it is issued, leaves pending only into exactly one of completed and
\* cancelled, and once in completed (or in cancelled) stays there and is in
\* neither of the other two collections ever after.
C15_OneDirectional ==
    [][\A jobId \in JobIds :
          /\ InCompleted(jobId)
                => InCompleted(jobId)' /\ ~InPending(jobId)' /\ ~InCancelled(jobId)'
          /\ InCancelled(jobId)
                => InCancelled(jobId)' /\ ~InPending(jobId)' /\ ~InCompleted(jobId)'
          /\ (~InPending(jobId) /\ InPending(jobId)')
                => jobId \notin Issued /\ jobId \in Issued'
          /\ (InPending(jobId) /\ ~InPending(jobId)')
                => InCompleted(jobId)' # InCancelled(jobId)'
          /\ (~InPending(jobId) /\ ~InCompleted(jobId) /\ ~InCancelled(jobId))
                => ~InCompleted(jobId)' /\ ~InCancelled(jobId)']_vars

\* One job completed and polled, another cancelled with its callback over.
C15_Witness ==
    \E jobId, other \in Issued :
        /\ Polled(jobId, "completed")
        /\ InCancelled(other)
        /\ TimerState(other) \in {"finished", "failed", "cleared"}

\* C16: a credits request and a job-status request, whatever the identifier,
\* leave the balance, the three collections and the timers unchanged.
C16_ReadOnly ==
    [][(CREDITS \/ \E jobId \in Requested : JOB_STATUS(jobId))
          => UNCHANGED tracker]_vars

\* A completed job delivered by a poll and still stored.
C16_Witness ==
    \E jobId \in Issued :
        /\ Polled(jobId, "completed")
        /\ InCompleted(jobId)
        /\ response.body.images = completedJobs[jobId]

C18_BalanceEquation ==
    credits = 10 + 10 * purchases - Cardinality(DOMAIN completedJobs)

\* After a purchase: one job completed and charged, one cancelled while
\* generating and not charged.
C18_Witness ==
    \E jobId, other \in Issued :
        /\ InCompleted(jobId)
        /\ InCancelled(other)
        /\ TimerState(other) = "finished"
        /\ purchases = 1
        /\ credits = 19

---------------------------------------------------------------------------
\* C19: with timers that fire and generation calls that settle, every queued
\* job eventually is completed, is cancelled, or has failed generation and
\* remains pending; a job whose callback has finished with four images and
\* that was not cancelled is in completed, so a job that is never cancelled
\* and whose calls all succeed eventually reaches completed.
C19_EveryJobSettles ==
    \A jobId \in 1..MaxJobs :
        /\ (jobId \in Issued) ~>
              \/ InCompleted(jobId)
              \/ InCancelled(jobId)
              \/ TimerState(jobId) = "failed" /\ InPending(jobId)
        /\ []((TimerState(jobId) = "finished" /\ ~InCancelled(jobId))
                 => InCompleted(jobId) /\ ~InPending(jobId))

\* One job completed, the other failed and still pending.
C19_Witness ==
    \E jobId, other \in Issued :
        /\ InCompleted(jobId)
        /\ TimerState(jobId) = "finished"
        /\ TimerState(other) = "failed"
        /\ InPending(other)

---------------------------------------------------------------------------
\* C20: a queue-image-generation request with a non-empty prompt served at
\* a positive balance succeeds however many jobs are pending, as many as the
\* balance or more included: it is answered 200 with a new identifier, the
\* job is appended to pending with its timer armed, and the balance is left
\* as it is (nothing is reserved).
C20_AdmissionByBalanceOnly ==
    [][\A prompt \in Prompts :
          (credits > 0 /\ QueueSpend(prompt))
              => /\ response'.status = 200
                 /\ \E jobId \in JobIds \ Issued :
                       /\ response'.body = [jobId |-> jobId]
                       /\ InPending(jobId)'
                       /\ TimerState(jobId)' = "scheduled"
                 /\ Len(jobQueue') = Len(jobQueue) + 1
                 /\ credits' = credits]_vars

\* A job admitted at a balance of 1 with a job already pending: more jobs
\* pending than credits.
C20_Witness ==
    /\ response.route = "queue-image-generation"
    /\ response.status = 200
    /\ credits > 0
    /\ Len(jobQueue) > credits
    /\ \A i \in 1..Len(jobQueue) : TimerState(jobQueue[i].jobId) # "failed"

=============================================================================
